---- MODULE Spec2Model ----
(***************************************************************************)
(* Model of UnifiedTickTickAPI (src/src/ticktick_mcp/unified/api.py): the  *)
(* facade that owns a V1 client (upstream A) and a V2 client (upstream B), *)
(* its initialize()/close() lifecycle and the per-operation routing.       *)
(*                                                                         *)
(* Every coroutine is cut at its awaits: one action is the code between    *)
(* two suspension points.  Upstream answers are chosen by the environment. *)
(***************************************************************************)
EXTENDS Integers, Sequences, FiniteSets, TLC

\* Number of initialize() runs that get past the "already initialized" return.
MaxInits == 2

VARIABLES
    cfg,          \* constructor arguments of this facade instance
    initialized,  \* self._initialized
    v1_client,    \* self._v1_client   (0 = None, g = handle built by run g)
    v2_client,    \* self._v2_client
    router,       \* self._router
    inbox_id,     \* self._inbox_id
    gen,          \* initialize() runs started so far
    authed,       \* V2 handles whose authenticate() succeeded
    closedV1,     \* V1 handles whose close() completed
    closedV2,     \* V2 handles whose close() completed
    init_failed,  \* history: some initialize() on this instance has raised
    icall,        \* the initialize() coroutines in flight
    ccall,        \* the close() coroutine in flight
    call          \* the facade operation in flight

\* The in-memory reference implementation of the operations
\* (MockUnifiedAPI, src/tests/conftest.py).
VARIABLES
    tasks,        \* self.tasks     task id -> Task
    projects,     \* self.projects  project id -> Project
    folders,      \* self.folders   folder id -> ProjectGroup
    tags,         \* self.tags      tag name -> Tag
    id_counter,   \* IDGenerator._counter
    mcall         \* the last entry of call_history with the call's outcome

mockVars == <<tasks, projects, folders, tags, id_counter, mcall>>

\* The tool layer (src/src/ticktick_mcp/server.py).
VARIABLE
    handled       \* the last handle_error(e, operation) call and its result

vars == <<cfg, initialized, v1_client, v2_client, router, inbox_id, gen,
          authed, closedV1, closedV2, init_failed, icall, ccall, call,
          mockVars, handled>>

lifeVars == <<cfg, initialized, v1_client, v2_client, router, inbox_id, gen,
              authed, closedV1, closedV2, init_failed, icall, ccall>>

None == "None"

\* Two client tasks share the facade and run concurrently: "main" calls
\* initialize() and the operations, "aux" calls initialize() and close().
\* Each task runs one coroutine at a time.
InitCallers == {"main", "aux"}

\* The task is not inside another coroutine of its own.
TaskFree(i) == IF i = "main" THEN call.pc = "idle" ELSE ccall.pc = "idle"

----------------------------------------------------------------------------
\* Error strings of initialize()

ErrV1Init == "V1 initialization failed"

ErrV2Init == "V2 initialization failed"

ErrV2Creds == "V2 credentials not provided"

ErrV1Verify == "V1 authentication verification failed"

ErrV2Verify == "V2 authentication verification failed"

MsgPrefix == "Both V1 and V2 APIs are required."

----------------------------------------------------------------------------
\* APIRouter

\* APIRouter(v1_client=..., v2_client=...): the router keeps the two handles
\* it was built with.
APIRouter(v1, v2) == [made |-> TRUE, v1 |-> v1, v2 |-> v2]

NoRouter == [made |-> FALSE, v1 |-> 0, v2 |-> 0]

\* has_v1: the client was constructed.
has_v1(r) == r.made /\ r.v1 # 0

\* has_v2: the client was constructed and its authentication succeeded.
has_v2(r) == r.made /\ r.v2 # 0 /\ r.v2 \in authed

is_fully_configured(r) == has_v1(r) /\ has_v2(r)

\* verify_clients(): one boolean per client; a client that is absent or not
\* authenticated cannot pass its authenticated probe call, a usable one
\* passes or fails as the upstream answers.
VerifyOutcomes(r) ==
    [v1 : IF has_v1(r) THEN BOOLEAN ELSE {FALSE},
     v2 : IF has_v2(r) THEN BOOLEAN ELSE {FALSE}]

----------------------------------------------------------------------------
\* initialize()

IdleInit ==
    [pc |-> "idle", g |-> 0, errors |-> <<>>, vr |-> NoRouter, early |-> FALSE,
     c1 |-> FALSE, c2 |-> FALSE, auth |-> "none", ver1 |-> FALSE, ver2 |-> FALSE,
     full |-> FALSE, out |-> None, msg |-> <<>>, late |-> FALSE]

\* errors.append(...) for the two verification results.
VerificationErrors(errors, ver) ==
    errors \o (IF ver.v1 THEN <<>> ELSE <<ErrV1Verify>>)
           \o (IF ver.v2 THEN <<>> ELSE <<ErrV2Verify>>)

\* Mutant: only the first error makes it into the message.
FirstErrorMessage(errors) ==
    <<MsgPrefix>> \o (IF errors = <<>> THEN <<>> ELSE <<Head(errors)>>)

\* "Both V1 and V2 APIs are required. " + "; ".join(errors)
ConfigurationMessage(errors) == <<MsgPrefix>> \o errors

\* The condition of the raise that ends a failed initialize().
InitRefused(r) == ~is_fully_configured(r)

\* Lines 160-167: build the router from the current handles and start
\* verify_clients() on it.
ToVerify(i, rec, v1, v2) ==
    /\ router' = APIRouter(v1, v2)
    /\ icall' = [icall EXCEPT ![i] = [rec EXCEPT !.pc = "verify",
                                                 !.vr = APIRouter(v1, v2)]]

\* Mutant: a ready facade is initialized again.
AlreadyInitializedNever(init) == FALSE

\* Lines 120-121: "if self._initialized: return".
AlreadyInitialized(init) == init

\* Lines 120-158 up to the first await.
InitStart(i) ==
    /\ icall[i].pc = "idle"
    /\ TaskFree(i)
    /\ IF AlreadyInitialized(initialized)
       THEN /\ icall' = [icall EXCEPT ![i] = [IdleInit EXCEPT !.pc = "done",
                                                !.early = TRUE, !.out = "return",
                                                !.late = init_failed]]
            /\ UNCHANGED <<v1_client, v2_client, router, gen>>
       ELSE /\ gen < MaxInits
            /\ gen' = gen + 1
            /\ LET g   == gen + 1
                   e1  == IF cfg.v1ok THEN <<>> ELSE <<ErrV1Init>>
                   nv1 == IF cfg.v1ok THEN g ELSE v1_client
                   nv2 == IF cfg.v2ok THEN g ELSE v2_client
                   rec == [IdleInit EXCEPT !.g = g, !.c1 = cfg.v1ok, !.c2 = cfg.v2ok,
                                           !.late = init_failed]
               IN  /\ v1_client' = nv1
                   /\ v2_client' = nv2
                   /\ IF cfg.v2ok /\ cfg.creds
                      THEN /\ icall' = [icall EXCEPT ![i] =
                                          [rec EXCEPT !.pc = "auth", !.errors = e1]]
                           /\ UNCHANGED router
                      ELSE ToVerify(i,
                              [rec EXCEPT !.errors =
                                  e1 \o (IF cfg.v2ok THEN <<ErrV2Creds>>
                                                     ELSE <<ErrV2Init>>)],
                              nv1, nv2)
    /\ UNCHANGED <<handled, mockVars, cfg, init_failed, initialized, inbox_id,
                   authed, closedV1, closedV2,
                   ccall, call>>

\* Lines 148-167: authenticate() answers.
InitAuth(i) ==
    /\ icall[i].pc = "auth"
    /\ \E ok \in BOOLEAN, inbox \in {None, "inbox"} :
          /\ IF ok
             THEN /\ authed' = authed \cup {icall[i].g}
                  /\ inbox_id' = inbox
             ELSE UNCHANGED <<authed, inbox_id>>
          /\ ToVerify(i,
                [icall[i] EXCEPT
                    !.auth = IF ok THEN "ok" ELSE "failed",
                    !.errors = IF ok THEN @ ELSE Append(@, ErrV2Init)],
                v1_client, v2_client)
    /\ UNCHANGED <<handled, mockVars, cfg, init_failed, initialized, v1_client,
                   v2_client, gen, closedV1,
                   closedV2, ccall, call>>

\* Lines 167-180: verify_clients() answers.
InitVerify(i) ==
    /\ icall[i].pc = "verify"
    /\ \E ver \in VerifyOutcomes(icall[i].vr) :
          LET errors == VerificationErrors(icall[i].errors, ver)
              rec    == [icall[i] EXCEPT !.pc = "done", !.errors = errors,
                            !.ver1 = ver.v1, !.ver2 = ver.v2,
                            !.full = is_fully_configured(router)]
          IN  IF InitRefused(router)
              THEN /\ icall' = [icall EXCEPT ![i] =
                                  [rec EXCEPT !.out = "TickTickConfigurationError",
                                              !.msg = ConfigurationMessage(errors)]]
                   /\ init_failed' = TRUE
                   /\ UNCHANGED initialized
              ELSE /\ icall' = [icall EXCEPT ![i] = [rec EXCEPT !.out = "return"]]
                   /\ initialized' = TRUE
                   /\ UNCHANGED init_failed
    /\ UNCHANGED <<handled, mockVars, cfg, v1_client, v2_client, router, inbox_id,
                   gen, authed,
                   closedV1, closedV2, ccall, call>>

\* The caller takes the result of initialize().  The field "late" of the
\* call's record notes that the call began after an earlier initialize() on
\* this instance had raised.
InitReturn(i) ==
    /\ icall[i].pc = "done"
    /\ icall' = [icall EXCEPT ![i] = IdleInit]
    /\ UNCHANGED <<handled, mockVars, cfg, init_failed, initialized, v1_client,
                   v2_client, router, inbox_id,
                   gen, authed, closedV1, closedV2, ccall, call>>

----------------------------------------------------------------------------
\* close()

IdleClose == [pc |-> "idle", h |-> 0]

\* Line 188.
CloseFinish ==
    /\ initialized' = FALSE
    /\ ccall' = IdleClose

\* Lines 184-188 up to the first await.
CloseStart ==
    /\ ccall.pc = "idle"
    /\ icall["aux"].pc = "idle"
    /\ IF v1_client # 0
       THEN /\ ccall' = [pc |-> "v1", h |-> v1_client]
            /\ UNCHANGED initialized
       ELSE IF v2_client # 0
       THEN /\ ccall' = [pc |-> "v2", h |-> v2_client]
            /\ UNCHANGED initialized
       ELSE CloseFinish
    /\ UNCHANGED <<handled, mockVars, cfg, init_failed, v1_client, v2_client,
                   router, inbox_id, gen, authed,
                   closedV1, closedV2, icall, call>>

\* Lines 185-188: the V1 client's close() completes.
CloseV1 ==
    /\ ccall.pc = "v1"
    /\ closedV1' = closedV1 \cup {ccall.h}
    /\ IF v2_client # 0
       THEN /\ ccall' = [pc |-> "v2", h |-> v2_client]
            /\ UNCHANGED initialized
       ELSE CloseFinish
    /\ UNCHANGED <<handled, mockVars, cfg, init_failed, v1_client, v2_client,
                   router, inbox_id, gen, authed,
                   closedV2, icall, call>>

\* Lines 187-188: the V2 client's close() completes.
CloseV2 ==
    /\ ccall.pc = "v2"
    /\ closedV2' = closedV2 \cup {ccall.h}
    /\ CloseFinish
    /\ UNCHANGED <<handled, mockVars, cfg, init_failed, v1_client, v2_client,
                   router, inbox_id, gen, authed,
                   closedV1, icall, call>>

----------------------------------------------------------------------------
\* Facade operations

\* Arguments the caller passes.
TaskId == "t1"

ProjectId == "p1"

\* Ids the V2 upstream can generate for a created entity.
NewIds == {"n1", "n2"}

\* The acknowledgements of a V2 write: response["id2etag"], as its key list.
Acks == {<<>>} \cup {<<n>> : n \in NewIds}

\* What an upstream call can do: answer, or raise one of the three errors.
RespKinds == {"ok", "api", "notfound", "auth"}

ErrorKinds == RespKinds \ {"ok"}

\* The exception class of an upstream error.
ErrName(k) ==
    CASE k = "api" -> "TickTickAPIError"
      [] k = "notfound" -> "TickTickNotFoundError"
      [] k = "auth" -> "TickTickAuthenticationError"

\* Mutant: every upstream error counts as an API error.
IsAnyError(k) == k \in ErrorKinds

\* isinstance(e, TickTickAPIError): not-found is an API error, an
\* authentication error is not.
IsAPIError(k) == k \in {"api", "notfound"}

\* Operations that only call the V2 client, once.
BOnlyOps ==
    {"sync_all", "list_all_tasks", "list_completed_tasks", "move_task",
     "set_task_parent", "list_project_groups", "delete_project_group",
     "list_tags", "create_tag", "delete_tag", "rename_tag", "merge_tags",
     "get_user_profile", "get_user_status", "get_user_statistics",
     "get_focus_heatmap", "get_focus_by_tag"}

\* The V2 client method a V2-only operation awaits.
BMethod(op) ==
    CASE op \in {"sync_all", "list_all_tasks", "list_project_groups", "list_tags"}
            -> "sync"
      [] op = "list_completed_tasks" -> "get_completed_tasks"
      [] OTHER -> op

\* Operations declared "-> None".
VoidOps ==
    {"complete_task", "delete_task", "move_task", "set_task_parent",
     "delete_project", "delete_project_group", "delete_tag", "rename_tag",
     "merge_tags"}

\* Operations that hand back the upstream mapping itself.
RawOps == {"sync_all", "get_focus_heatmap", "get_focus_by_tag"}

NoRes == [conv |-> None, m |-> None, id |-> None]

IdleCall ==
    [pc |-> "idle", op |-> None, pid |-> None, stage |-> None, proj |-> None,
     ack |-> None, log |-> <<>>, ready0 |-> FALSE,
     cap0 |-> [v1 |-> FALSE, v2 |-> FALSE],
     out |-> None, operation |-> None, res |-> NoRes]

\* Mutant: the guard lets every call through.
EnsureInitializedAlways(init) == TRUE

\* _ensure_initialized(): passes iff self._initialized.
EnsureInitialized(init) == init

\* Mutant: the id of the acknowledgement is never found.
FirstKeyMissing(id2etag) == None

\* Mutant: the etag is taken where the id is meant.
FirstValue(id2etag) == IF id2etag = <<>> THEN None ELSE "etag"

\* next(iter(response.get("id2etag", {}).keys()), None)
FirstKey(id2etag) == IF id2etag = <<>> THEN None ELSE Head(id2etag)

\* await client.m(...): the coroutine suspends on the upstream call.
Issue(c, api, m, id, stage) ==
    [c EXCEPT !.pc = "await", !.stage = stage,
              !.log = Append(@, [api |-> api, m |-> m, id |-> id,
                                 resp |-> "pending"])]

Return(c, res) == [c EXCEPT !.pc = "done", !.out = "return", !.res = res]

Raise(c, kind, operation) ==
    [c EXCEPT !.pc = "done", !.out = kind, !.operation = operation]

\* Mutant: the guard's error is the one of an unavailable upstream.
RaiseNotInitializedAsUnavailable(c) ==
    Raise(c, "TickTickAPIUnavailableError", None)

\* _ensure_initialized() raises.
RaiseNotInitialized(c) == Raise(c, "TickTickConfigurationError", None)

RaiseUnavailable(c, operation) ==
    Raise(c, "TickTickAPIUnavailableError", operation)

\* The upstream's answer to the pending call, written into the log.
Answered(c, k) == [c EXCEPT !.log[Len(c.log)].resp = k]

\* The answer of a V2 write: the log keeps the id it acknowledged, if any.
Acked(c, k, id2etag) ==
    [c EXCEPT !.log[Len(c.log)].resp = k,
              !.log[Len(c.log)].id = IF id2etag = <<>> THEN None ELSE id2etag[1]]

Pending(c) == c.log[Len(c.log)]

\* get_task, lines 276-284.
GetTaskFallback(c, task_id, project_id) ==
    IF has_v1(router) /\ project_id # None
    THEN Issue(c, "A", "get_task", task_id, "final")
    ELSE RaiseUnavailable(c, "get_task")

\* get_task, lines 266-284 up to the first await.
GetTask(c, task_id, project_id) ==
    IF ~EnsureInitialized(initialized) THEN RaiseNotInitialized(c)
    ELSE IF has_v2(router) THEN Issue(c, "B", "get_task", task_id, "gt_b")
    ELSE GetTaskFallback(c, task_id, project_id)

\* create_task, lines 361-381.
CreateTaskFallback(c) ==
    IF has_v1(router)
    THEN Issue(c, "A", "create_task", None, "final")
    ELSE RaiseUnavailable(c, "create_task")

\* Mutant: a missing project_id is not replaced by the inbox id.
CreateTaskNoInbox(c, project_id) ==
    IF ~EnsureInitialized(initialized) THEN RaiseNotInitialized(c)
    ELSE LET c1 == [c EXCEPT !.proj = project_id]
         IN  IF project_id = None
             THEN Raise(c1, "TickTickConfigurationError", None)
             ELSE IF has_v2(router)
                  THEN Issue(c1, "B", "create_task", None, "ct_b")
                  ELSE CreateTaskFallback(c1)

\* create_task, lines 326-381 up to the first await.
CreateTask(c, project_id) ==
    IF ~EnsureInitialized(initialized) THEN RaiseNotInitialized(c)
    ELSE LET proj == IF project_id = None THEN inbox_id ELSE project_id
             c1   == [c EXCEPT !.proj = proj]
         IN  IF proj = None THEN Raise(c1, "TickTickConfigurationError", None)
             ELSE IF has_v2(router)
                  THEN Issue(c1, "B", "create_task", None, "ct_b")
                  ELSE CreateTaskFallback(c1)

\* update_task, lines 396-428 up to the first await.
UpdateTask(c) ==
    IF ~EnsureInitialized(initialized) THEN RaiseNotInitialized(c)
    ELSE IF has_v2(router) THEN Issue(c, "B", "batch_tasks", TaskId, "ut_b")
    ELSE IF has_v1(router) THEN Issue(c, "A", "update_task", TaskId, "final")
    ELSE RaiseUnavailable(c, "update_task")

\* complete_task, lines 440-460.
CompleteTask(c) ==
    IF ~EnsureInitialized(initialized) THEN RaiseNotInitialized(c)
    ELSE IF has_v1(router) THEN Issue(c, "A", "complete_task", TaskId, "final")
    ELSE IF has_v2(router) THEN Issue(c, "B", "update_task", TaskId, "final")
    ELSE RaiseUnavailable(c, "complete_task")

\* delete_task, lines 470-485.
DeleteTask(c) ==
    IF ~EnsureInitialized(initialized) THEN RaiseNotInitialized(c)
    ELSE IF has_v2(router) THEN Issue(c, "B", "delete_task", TaskId, "final")
    ELSE IF has_v1(router) THEN Issue(c, "A", "delete_task", TaskId, "final")
    ELSE RaiseUnavailable(c, "delete_task")

\* list_projects, lines 559-575.
ListProjects(c) ==
    IF ~EnsureInitialized(initialized) THEN RaiseNotInitialized(c)
    ELSE IF has_v2(router) THEN Issue(c, "B", "sync", None, "final")
    ELSE IF has_v1(router) THEN Issue(c, "A", "get_projects", None, "final")
    ELSE RaiseUnavailable(c, "list_projects")

\* get_project, lines 587-604 up to the first await.
GetProject(c, project_id) ==
    IF ~EnsureInitialized(initialized) THEN RaiseNotInitialized(c)
    ELSE IF has_v1(router) THEN Issue(c, "A", "get_project", project_id, "final")
    ELSE IF has_v2(router) THEN Issue(c, "B", "sync", project_id, "gp_b")
    ELSE RaiseUnavailable(c, "get_project")

\* get_project_with_data, lines 618-627.
GetProjectWithData(c) ==
    IF ~EnsureInitialized(initialized) THEN RaiseNotInitialized(c)
    ELSE IF ~has_v1(router) THEN RaiseUnavailable(c, "get_project_with_data")
    ELSE Issue(c, "A", "get_project_with_data", ProjectId, "final")

\* create_project, lines 666-679.
CreateProjectFallback(c) ==
    IF has_v1(router)
    THEN Issue(c, "A", "create_project", None, "final")
    ELSE RaiseUnavailable(c, "create_project")

\* create_project, lines 651-679 up to the first await.
CreateProject(c) ==
    IF ~EnsureInitialized(initialized) THEN RaiseNotInitialized(c)
    ELSE IF has_v2(router) THEN Issue(c, "B", "create_project", None, "cp_b")
    ELSE CreateProjectFallback(c)

\* delete_project, lines 688-703.
DeleteProject(c) ==
    IF ~EnsureInitialized(initialized) THEN RaiseNotInitialized(c)
    ELSE IF has_v2(router) THEN Issue(c, "B", "delete_project", ProjectId, "final")
    ELSE IF has_v1(router) THEN Issue(c, "A", "delete_project", ProjectId, "final")
    ELSE RaiseUnavailable(c, "delete_project")

\* The V2-only operations: the guard, then the V2 client, whatever the router
\* says (sync_all, list_all_tasks, ..., get_focus_by_tag).
BOnly(c, op) ==
    IF ~EnsureInitialized(initialized) THEN RaiseNotInitialized(c)
    ELSE Issue(c, "B", BMethod(op), None, "final")

\* list_project_groups, lines 718-721, as create_project_group calls it.
ListProjectGroups(c) ==
    IF ~EnsureInitialized(initialized) THEN RaiseNotInitialized(c)
    ELSE Issue(c, "B", "sync", c.ack, "cpg_list")

\* create_project_group, lines 735-736.
CreateProjectGroup(c) ==
    IF ~EnsureInitialized(initialized) THEN RaiseNotInitialized(c)
    ELSE Issue(c, "B", "create_project_group", None, "cpg_b")

\* The value a finished upstream call is turned into: Task.from_v1(data),
\* Project.from_v2(p), the raw mapping, Tag.create(...), or None.
Converted(op, e) ==
    IF op \in VoidOps THEN NoRes
    ELSE [conv |-> IF op = "create_tag" THEN "local"
                   ELSE IF op \in RawOps THEN "raw"
                   ELSE IF e.api = "A" THEN "from_v1" ELSE "from_v2",
          m |-> e.m, id |-> e.id]

\* A new call of operation op by the main task.
NewCall(op, pid) ==
    [IdleCall EXCEPT !.op = op, !.pid = pid, !.ready0 = initialized,
        !.cap0 = [v1 |-> has_v1(router), v2 |-> has_v2(router)]]

Begin(c) ==
    /\ call.pc = "idle"
    /\ icall["main"].pc = "idle"
    /\ call' = c
    /\ UNCHANGED <<lifeVars, mockVars, handled>>

Call_get_task ==
    \E pid \in {None, ProjectId} :
        Begin(GetTask(NewCall("get_task", pid), TaskId, pid))

Call_create_task ==
    \E pid \in {None, ProjectId} :
        Begin(CreateTask(NewCall("create_task", pid), pid))

Call_update_task == Begin(UpdateTask(NewCall("update_task", ProjectId)))

Call_complete_task == Begin(CompleteTask(NewCall("complete_task", ProjectId)))

Call_delete_task == Begin(DeleteTask(NewCall("delete_task", ProjectId)))

Call_list_projects == Begin(ListProjects(NewCall("list_projects", None)))

Call_get_project ==
    Begin(GetProject(NewCall("get_project", ProjectId), ProjectId))

Call_get_project_with_data ==
    Begin(GetProjectWithData(NewCall("get_project_with_data", ProjectId)))

Call_create_project == Begin(CreateProject(NewCall("create_project", None)))

Call_delete_project == Begin(DeleteProject(NewCall("delete_project", ProjectId)))

Call_create_project_group ==
    Begin(CreateProjectGroup(NewCall("create_project_group", None)))

Call_b_only == \E op \in BOnlyOps : Begin(BOnly(NewCall(op, None), op))

\* The upstream answers the pending call of the coroutine suspended at st.
Answer(st, k) ==
    /\ call.pc = "await"
    /\ call.stage = st
    /\ UNCHANGED <<lifeVars, mockVars, handled>>

\* A call with nothing after it: convert and return, or let the error through.
Resp_final ==
    \E k \in RespKinds :
        /\ Answer("final", k)
        /\ LET c == Answered(call, k)
           IN  call' = IF k = "ok" THEN Return(c, Converted(c.op, Pending(c)))
                       ELSE Raise(c, ErrName(k), None)

\* get_task, lines 270-284: the V2 get answers.
Resp_get_task_b ==
    \E k \in RespKinds :
        /\ Answer("gt_b", k)
        /\ LET c == Answered(call, k)
               e == Pending(c)
               project_id == IF c.op = "get_task" THEN c.pid
                             ELSE IF c.op = "create_task" THEN c.proj
                             ELSE ProjectId
           IN  call' = IF k = "ok"
                       THEN Return(c, [conv |-> "from_v2", m |-> e.m, id |-> e.id])
                       ELSE IF IsAPIError(k)
                       THEN GetTaskFallback(c, e.id, project_id)
                       ELSE Raise(c, ErrName(k), None)

\* create_task, lines 340-381: the V2 write answers.
Resp_create_task_b ==
    \E k \in RespKinds, id2etag \in Acks :
        /\ Answer("ct_b", k)
        /\ k # "ok" => id2etag = <<>>
        /\ LET c == Acked(call, k, id2etag)
               task_id == FirstKey(id2etag)
           IN  call' = IF k # "ok" THEN Raise(c, ErrName(k), None)
                       ELSE IF task_id # None
                       THEN GetTask([c EXCEPT !.ack = task_id], task_id, c.proj)
                       ELSE CreateTaskFallback(c)

\* update_task, lines 401-404: the V2 batch update answers.
Resp_update_task_b ==
    \E k \in RespKinds :
        /\ Answer("ut_b", k)
        /\ LET c == Answered(call, k)
           IN  call' = IF k # "ok" THEN Raise(c, ErrName(k), None)
                       ELSE GetTask(c, TaskId, ProjectId)

\* create_project, lines 655-679: the V2 write answers.
Resp_create_project_b ==
    \E k \in RespKinds, id2etag \in Acks :
        /\ Answer("cp_b", k)
        /\ k # "ok" => id2etag = <<>>
        /\ LET c == Acked(call, k, id2etag)
               project_id == FirstKey(id2etag)
           IN  call' = IF k # "ok" THEN Raise(c, ErrName(k), None)
                       ELSE IF project_id # None
                       THEN GetProject([c EXCEPT !.ack = project_id], project_id)
                       ELSE CreateProjectFallback(c)

\* create_project_group, lines 736-740: the V2 write answers.
Resp_create_project_group_b ==
    \E k \in RespKinds, id2etag \in Acks :
        /\ Answer("cpg_b", k)
        /\ k # "ok" => id2etag = <<>>
        /\ LET c == Acked(call, k, id2etag)
           IN  call' = IF k # "ok" THEN Raise(c, ErrName(k), None)
                       ELSE ListProjectGroups([c EXCEPT !.ack = FirstKey(id2etag)])

\* A V2 sync answers and its list is scanned for one id.
\* create_project_group, lines 740-746: the group with the new id is
\* returned if listed, else the minimal ProjectGroup.  get_project, lines
\* 596-604: the project is returned if listed in projectProfiles, else the
\* call falls through to the final raise (a branch that needs has_v1 false).
Resp_sync_scan ==
    \E k \in RespKinds, found \in BOOLEAN :
        /\ call.pc = "await"
        /\ call.stage \in {"cpg_list", "gp_b"}
        /\ (k # "ok" \/ Pending(call).id = None) => ~found
        /\ UNCHANGED <<lifeVars, mockVars, handled>>
        /\ LET c == Answered(call, k)
               e == Pending(c)
           IN  call' = IF k # "ok" THEN Raise(c, ErrName(k), None)
                       ELSE IF found
                       THEN Return(c, [conv |-> "from_v2", m |-> e.m, id |-> e.id])
                       ELSE IF c.stage = "gp_b"
                       THEN RaiseUnavailable(c, "get_project")
                       ELSE Return(c, [conv |-> "local", m |-> None, id |-> e.id])

\* The caller takes the result; the task is free for its next call.
CallReturn ==
    /\ call.pc = "done"
    /\ call' = IdleCall
    /\ UNCHANGED <<lifeVars, mockVars, handled>>

----------------------------------------------------------------------------
\* MockUnifiedAPI.__init__ (src/tests/conftest.py): the empty data stores

\* None where an id is expected (ids are the positive counter values).
NoId == 0

\* The four dictionaries, all empty.
EmptyStore ==
    [tasks |-> <<>>, projects |-> <<>>, folders |-> <<>>, tags |-> <<>>]

\* No call recorded yet.  A recorded call keeps the method name, its
\* arguments, how it ended, what it returned and the stores it started from.
IdleMock ==
    [pc |-> "idle", op |-> None, args |-> <<>>, out |-> None, msg |-> None,
     res |-> <<>>, pre |-> EmptyStore]

\* handle_error has not been called.
IdleHandled ==
    [pc |-> "idle", error_type |-> <<>>, text |-> None, operation |-> None,
     res |-> <<>>]

----------------------------------------------------------------------------

Init ==
    /\ cfg \in [v1ok : BOOLEAN, v2ok : BOOLEAN, creds : BOOLEAN]
    /\ initialized = FALSE
    /\ v1_client = 0
    /\ v2_client = 0
    /\ router = NoRouter
    /\ inbox_id = None
    /\ gen = 0
    /\ authed = {}
    /\ closedV1 = {}
    /\ closedV2 = {}
    /\ init_failed = FALSE
    /\ icall = [i \in InitCallers |-> IdleInit]
    /\ ccall = IdleClose
    /\ call = IdleCall
    /\ tasks = <<>>
    /\ projects = <<>>
    /\ folders = <<>>
    /\ tags = <<>>
    /\ id_counter = 0
    /\ mcall = IdleMock
    /\ handled = IdleHandled

Next ==
    \/ \E i \in InitCallers : InitStart(i)
    \/ \E i \in InitCallers : InitAuth(i)
    \/ \E i \in InitCallers : InitVerify(i)
    \/ \E i \in InitCallers : InitReturn(i)
    \/ CloseStart
    \/ CloseV1
    \/ CloseV2
    \/ Call_get_task
    \/ Call_create_task
    \/ Call_update_task
    \/ Call_complete_task
    \/ Call_delete_task
    \/ Call_list_projects
    \/ Call_get_project
    \/ Call_get_project_with_data
    \/ Call_create_project
    \/ Call_delete_project
    \/ Call_create_project_group
    \/ Call_b_only
    \/ Resp_final
    \/ Resp_get_task_b
    \/ Resp_create_task_b
    \/ Resp_update_task_b
    \/ Resp_create_project_b
    \/ Resp_create_project_group_b
    \/ Resp_sync_scan
    \/ CallReturn

Spec == Init /\ [][Next]_vars

----------------------------------------------------------------------------
\* Properties

Range(s) == {s[i] : i \in DOMAIN s}

ConfigurationError == "TickTickConfigurationError"

UnavailableError == "TickTickAPIUnavailableError"

\* The policy table of the specification, section 4.2.
PolicyOps ==
    {"get_task", "create_task", "update_task", "delete_task", "list_projects",
     "create_project", "delete_project", "complete_task", "get_project",
     "get_project_with_data"}

PolicyPrimary(op) ==
    IF op \in {"complete_task", "get_project", "get_project_with_data"}
    THEN "A" ELSE "B"

PolicyFallback(op) == IF PolicyPrimary(op) = "A" THEN "B" ELSE "A"

FallbackWrites ==
    {"create_task", "update_task", "delete_task", "create_project",
     "delete_project", "complete_task"}

FallbackOps == PolicyOps \ {"get_project_with_data"}

BOnlyAll == BOnlyOps \cup {"create_project_group"}

CreateWrites == {"create_task", "create_project"}

ReadOf(op) == IF op = "create_task" THEN "get_task" ELSE "get_project"

\* C1: an operation called while the facade is not initialized ends at once
\* with a configuration error and has made no upstream call.
C1_UninitializedCallRefused ==
    (call.pc # "idle" /\ ~call.ready0) =>
        /\ call.pc = "done"
        /\ call.out = ConfigurationError
        /\ call.log = <<>>

\* C1 witness: after a close() that closed the V2 client, an operation was
\* called and refused.
C1_Witness ==
    /\ call.pc = "done"
    /\ ~call.ready0
    /\ call.out = ConfigurationError
    /\ closedV2 # {}
    /\ ccall.pc = "idle"

\* C2 (as claimed): a write with a fallback, called with both upstreams
\* configured, whose primary call raises an upstream error, goes on to the
\* fallback upstream and returns if the fallback answers.
C2_FallbackAfterPrimaryError ==
    (/\ call.pc = "done"
     /\ call.op \in FallbackWrites
     /\ call.cap0.v1 /\ call.cap0.v2
     /\ call.log # <<>>
     /\ call.log[1].api = PolicyPrimary(call.op)
     /\ call.log[1].resp = "api")
    => /\ Len(call.log) >= 2
       /\ call.log[2].api = PolicyFallback(call.op)
       /\ (call.log[2].resp = "ok" => call.out = "return")

\* C3 (as claimed): when the primary and the fallback attempt of an operation
\* both raise upstream errors, the caller gets UpstreamUnavailable naming
\* the operation.
C3_BothFailedRaisesUnavailable ==
    (/\ call.pc = "done"
     /\ call.op \in FallbackOps
     /\ Len(call.log) = 2
     /\ call.log[1].api = PolicyPrimary(call.op)
     /\ call.log[1].resp = "api"
     /\ call.log[2].api = PolicyFallback(call.op)
     /\ call.log[2].resp = "api")
    => /\ call.out = UnavailableError
       /\ call.operation = call.op

\* C4 (as claimed): a V2-only operation whose V2 call fails raises
\* UpstreamUnavailable naming the operation, and the V1 client is not called.
C4_BOnlyFailureRaisesUnavailable ==
    (/\ call.pc = "done"
     /\ call.op \in BOnlyAll
     /\ call.log # <<>>
     /\ call.log[Len(call.log)].resp \in ErrorKinds)
    => /\ call.out = UnavailableError
       /\ call.operation = call.op
       /\ \A j \in DOMAIN call.log : call.log[j].api = "B"

C6_ReadAfterWrite ==
    \A w \in DOMAIN call.log :
        (/\ call.pc = "done"
         /\ call.op \in CreateWrites
         /\ call.log[w].api = "B"
         /\ call.log[w].m = call.op
         /\ call.log[w].resp = "ok"
         /\ call.log[w].id # None)
        => /\ call.out # ConfigurationError =>
                /\ Len(call.log) > w
                /\ call.log[w + 1].m = ReadOf(call.op)
                /\ call.log[w + 1].id = call.log[w].id
           /\ call.out = "return" =>
                /\ call.log[Len(call.log)].m = ReadOf(call.op)
                /\ call.log[Len(call.log)].id = call.log[w].id
                /\ call.log[Len(call.log)].resp = "ok"
                /\ call.res.m = ReadOf(call.op)
                /\ call.res.id = call.log[w].id

\* C6 witness: create_project returned the project read back under the id
\* "n2" that the V2 write had acknowledged.
C6_Witness ==
    /\ call.pc = "done"
    /\ call.op = "create_project"
    /\ call.out = "return"
    /\ call.log[1].id = "n2"
    /\ call.res.id = "n2"

\* C7 (as claimed): the first upstream call of every operation of the policy
\* table goes to the primary of the table.
C7_FirstCallToPrimary ==
    (call.op \in PolicyOps /\ call.log # <<>>) =>
        call.log[1].api = PolicyPrimary(call.op)

\* C8 (as claimed): get_task calls V1 only right after its V2 get raised an
\* upstream error and only with a project_id; when V2 fails and no
\* project_id was given it calls V1 not at all and raises UpstreamUnavailable
\* naming get_task.
C8_GetTaskFallback ==
    call.op = "get_task" =>
        /\ \A j \in DOMAIN call.log :
              call.log[j].api = "A" =>
                  /\ call.pid # None
                  /\ j > 1
                  /\ call.log[j - 1].api = "B"
                  /\ IsAPIError(call.log[j - 1].resp)
        /\ (/\ call.pc = "done"
            /\ call.pid = None
            /\ call.log # <<>>
            /\ call.log[1].api = "B"
            /\ IsAPIError(call.log[1].resp))
           => /\ Len(call.log) = 1
              /\ call.out = UnavailableError
              /\ call.operation = "get_task"

\* C9 (as claimed): an initialize() that marks the facade ready has built both
\* clients, has seen V2's authentication succeed, has got true for both
\* clients from verify_clients() and has found is_fully_configured true.
C9_ReadyOnlyIfAllHold ==
    \A i \in InitCallers :
        (icall[i].pc = "done" /\ ~icall[i].early /\ icall[i].out = "return") =>
            /\ icall[i].c1 /\ icall[i].c2
            /\ icall[i].auth = "ok"
            /\ icall[i].ver1 /\ icall[i].ver2
            /\ icall[i].full

\* C10: a failed initialize() raises one configuration error whose message
\* holds the error string of every failure of that run; with a V1 client and
\* a V2 client but no V2 credentials it fails and the message names the
\* missing credentials and the failed V2 verification.
C10_FailureMessageComplete ==
    \A i \in InitCallers :
        (icall[i].pc = "done" /\ ~icall[i].early) =>
            /\ icall[i].out \in {"return", ConfigurationError}
            /\ icall[i].out = ConfigurationError =>
                 /\ Head(icall[i].msg) = MsgPrefix
                 /\ ~icall[i].c1 => ErrV1Init \in Range(icall[i].msg)
                 /\ (~icall[i].c2 \/ icall[i].auth = "failed")
                        => ErrV2Init \in Range(icall[i].msg)
                 /\ (icall[i].c2 /\ ~cfg.creds) => ErrV2Creds \in Range(icall[i].msg)
                 /\ ~icall[i].ver1 => ErrV1Verify \in Range(icall[i].msg)
                 /\ ~icall[i].ver2 => ErrV2Verify \in Range(icall[i].msg)
            /\ (cfg.v1ok /\ cfg.v2ok /\ ~cfg.creds) =>
                 /\ icall[i].out = ConfigurationError
                 /\ ErrV2Creds \in Range(icall[i].msg)
                 /\ ErrV2Verify \in Range(icall[i].msg)

\* C10 witness: with both clients built and no V2 credentials, initialize()
\* has failed.
C10_Witness ==
    \E i \in InitCallers :
        /\ icall[i].pc = "done"
        /\ icall[i].out = ConfigurationError
        /\ cfg.v1ok /\ cfg.v2ok /\ ~cfg.creds

\* C11: a facade whose initialize() has failed never becomes ready
\* afterwards: no initialize() call begun after an earlier one on the same
\* instance raised ends by making the facade ready.
C11_FailedIsTerminal ==
    \A i \in InitCallers :
        (icall[i].pc = "done" /\ icall[i].late /\ ~icall[i].early) =>
            icall[i].out # "return"

----------------------------------------------------------------------------
\* MockUnifiedAPI (src/tests/conftest.py): strings, factories and results
\*
\* A method of the mock has no await inside: one call is one action.
\* should_fail and delays are empty as constructed, so _check_failure never
\* raises; of call_history the last entry is kept.

\* The facade's fields and the tool layer's, which no call on the mock
\* touches.
facadeVars == <<lifeVars, call, handled>>

\* A string is the sequence of its characters.
LowerChar(c) ==
    CASE c = "A" -> "a"
      [] c = "B" -> "b"
      [] c = "C" -> "c"
      [] OTHER   -> c

\* Mutant: the name is used with the casing it came in.
LowerKept(s) == s

\* str.lower()
Lower(s) == [i \in DOMAIN s |-> LowerChar(s[i])]

\* str.replace(" ", "")
StripSpaces(s) == SelectSeq(s, LAMBDA c : c # " ")

\* [t.lower() for t in task.tags]
LowerAll(ts) == [i \in DOMAIN ts |-> Lower(ts[i])]

\* None where a tag name is expected.
NoName == <<>>

\* self.inbox_id = "inbox123456789": an id that is no counter value.
MockInboxId == -1

\* TagFactory.create(label=name, color=color, parent=parent)
TagFactory(label, color, parent) ==
    [name |-> StripSpaces(Lower(label)), label |-> label, color |-> color,
     parent |-> parent]

\* Mutant: the title argument is dropped and the factory's default is stored.
TaskFactoryDefaultTitle(id, title, project_id, tag_list, parent_id) ==
    [id |-> id, project_id |-> project_id, title |-> "Test Task",
     tags |-> tag_list, parent_id |-> parent_id, child_ids |-> <<>>,
     status |-> "ACTIVE", completed_time |-> 0, priority |-> 0]

\* TaskFactory.create(title=..., project_id=..., **kwargs) with the id it draws.
TaskFactory(id, title, project_id, tag_list, parent_id) ==
    [id |-> id, project_id |-> project_id, title |-> title, tags |-> tag_list,
     parent_id |-> parent_id, child_ids |-> <<>>, status |-> "ACTIVE",
     completed_time |-> 0, priority |-> 0]

\* ProjectFactory.create(name=..., group_id=...) with the id it draws.
ProjectFactory(id, name, group_id) ==
    [id |-> id, name |-> name, group_id |-> group_id]

\* FolderFactory.create(name=name) with the id it draws.
FolderFactory(id, name) == [id |-> id, name |-> name]

\* del d[k]
Without(d, k) == [x \in DOMAIN d \ {k} |-> d[x]]

\* d[k] = v
With(d, k, v) == [x \in DOMAIN d \cup {k} |-> IF x = k THEN v ELSE d[x]]

\* list(d.values()), as the set of its entries.
Values(d) == {d[x] : x \in DOMAIN d}

\* The stores as the call found them.
Snapshot ==
    [tasks |-> tasks, projects |-> projects, folders |-> folders, tags |-> tags]

NotFoundError == "TickTickNotFoundError"

\* _record_call(method, args, kwargs), then the method returns res.
Returned(op, args, res) ==
    mcall' = [pc |-> "done", op |-> op, args |-> args, out |-> "return",
              msg |-> None, res |-> res, pre |-> Snapshot]

\* Mutant: the missing entity is not reported, the call returns normally.
NotFoundSilent(op, args, msg) ==
    /\ mcall' = [pc |-> "done", op |-> op, args |-> args, out |-> "return",
                 msg |-> None, res |-> <<>>, pre |-> Snapshot]
    /\ UNCHANGED <<tasks, projects, folders, tags, id_counter>>

\* _record_call(method, args, kwargs), then raise TickTickNotFoundError(msg);
\* the stores are as they were.
NotFound(op, args, msg) ==
    /\ mcall' = [pc |-> "done", op |-> op, args |-> args, out |-> NotFoundError,
                 msg |-> msg, res |-> <<>>, pre |-> Snapshot]
    /\ UNCHANGED <<tasks, projects, folders, tags, id_counter>>

\* The caller takes the result of the call.
MockReturn ==
    /\ mcall.pc = "done"
    /\ mcall' = IdleMock
    /\ UNCHANGED <<tasks, projects, folders, tags, id_counter, facadeVars>>

----------------------------------------------------------------------------
\* MockUnifiedAPI: task creation and the tag operations

\* create_task(title, project_id, tags=..., parent_id=...)
Mock_create_task(title, project_id, tag_list, parent_id) ==
    /\ mcall.pc = "idle"
    /\ LET id   == id_counter + 1
           task == TaskFactory(id, title,
                       IF project_id = NoId THEN MockInboxId ELSE project_id,
                       tag_list, parent_id)
       IN  /\ id_counter' = id
           /\ tasks' = With(tasks, id, task)
           /\ Returned("create_task", <<title, project_id>>, task)
    /\ UNCHANGED <<projects, folders, tags, facadeVars>>

\* list_tags()
Mock_list_tags ==
    /\ mcall.pc = "idle"
    /\ Returned("list_tags", <<>>, Values(tags))
    /\ UNCHANGED <<tasks, projects, folders, tags, id_counter, facadeVars>>

\* create_tag(name, color, parent)
Mock_create_tag(name, color, parent) ==
    /\ mcall.pc = "idle"
    /\ LET tag == TagFactory(name, color, parent)
       IN  /\ tags' = With(tags, tag.name, tag)
           /\ Returned("create_tag", <<name>>, tag)
    /\ UNCHANGED <<tasks, projects, folders, id_counter, facadeVars>>

\* Mutant: the tag entry is deleted and the tasks are left as they are.
TagsAfterDeleteKept(ts, tag_name) == ts

\* task.tags = [t for t in task.tags if t.lower() != tag_name]
TagsAfterDelete(ts, tag_name) == SelectSeq(ts, LAMBDA t : Lower(t) # tag_name)

\* delete_tag(name)
Mock_delete_tag(name) ==
    /\ mcall.pc = "idle"
    /\ LET tag_name == Lower(name)
       IN  IF tag_name \notin DOMAIN tags
           THEN NotFound("delete_tag", <<name>>, "Tag not found")
           ELSE /\ tags' = Without(tags, tag_name)
                /\ tasks' = [id \in DOMAIN tasks |->
                               [tasks[id] EXCEPT
                                   !.tags = TagsAfterDelete(@, tag_name)]]
                /\ Returned("delete_tag", <<name>>, <<>>)
                /\ UNCHANGED <<projects, folders, id_counter>>
    /\ UNCHANGED facadeVars

\* Mutant: the name is canonicalised and the label is left as it was.
RenamedTagNameOnly(tag, new_name) == [tag EXCEPT !.name = Lower(new_name)]

\* tag.name = new_tag_name; tag.label = new_name
RenamedTag(tag, new_name) ==
    [tag EXCEPT !.name = Lower(new_name), !.label = new_name]

\* task.tags = [new_tag_name if t.lower() == old_tag_name else t for t in ...]
TagsAfterRename(ts, old_tag_name, new_tag_name) ==
    [i \in DOMAIN ts |->
        IF Lower(ts[i]) = old_tag_name THEN new_tag_name ELSE ts[i]]

\* rename_tag(old_name, new_name)
Mock_rename_tag(old_name, new_name) ==
    /\ mcall.pc = "idle"
    /\ LET old_tag_name == Lower(old_name)
           new_tag_name == Lower(new_name)
       IN  IF old_tag_name \notin DOMAIN tags
           THEN NotFound("rename_tag", <<old_name, new_name>>, "Tag not found")
           ELSE /\ tags' = With(Without(tags, old_tag_name), new_tag_name,
                                RenamedTag(tags[old_tag_name], new_name))
                /\ tasks' = [id \in DOMAIN tasks |->
                               [tasks[id] EXCEPT
                                   !.tags = TagsAfterRename(@, old_tag_name,
                                                            new_tag_name)]]
                /\ Returned("rename_tag", <<old_name, new_name>>, <<>>)
                /\ UNCHANGED <<projects, folders, id_counter>>
    /\ UNCHANGED facadeVars

\* The loop body of merge_tags for one task.
TagsAfterMerge(ts, source_name, target_name) ==
    IF source_name \in Range(LowerAll(ts))
    THEN LET kept == SelectSeq(ts, LAMBDA t : Lower(t) # source_name)
         IN  IF target_name \notin Range(LowerAll(kept))
             THEN Append(kept, target_name)
             ELSE kept
    ELSE ts

\* The tag entry merge_tags deletes once every task is rewritten.
MergeDeletes(source_name, target_name) == source_name

\* Mutant: only the source is checked.
MergeCheckSourceOnly(source_name, target_name) ==
    IF source_name \notin DOMAIN tags THEN "Source tag not found" ELSE None

\* The first failed check of merge_tags, if any.
MergeCheck(source_name, target_name) ==
    IF source_name \notin DOMAIN tags THEN "Source tag not found"
    ELSE IF target_name \notin DOMAIN tags THEN "Target tag not found"
    ELSE None

\* merge_tags(source, target)
Mock_merge_tags(source, target) ==
    /\ mcall.pc = "idle"
    /\ LET source_name == Lower(source)
           target_name == Lower(target)
           failed      == MergeCheck(source_name, target_name)
       IN  IF failed # None
           THEN NotFound("merge_tags", <<source, target>>, failed)
           ELSE /\ tasks' = [id \in DOMAIN tasks |->
                               [tasks[id] EXCEPT
                                   !.tags = TagsAfterMerge(@, source_name,
                                                           target_name)]]
                /\ tags' = Without(tags, MergeDeletes(source_name, target_name))
                /\ Returned("merge_tags", <<source, target>>, <<>>)
                /\ UNCHANGED <<projects, folders, id_counter>>
    /\ UNCHANGED facadeVars

----------------------------------------------------------------------------
\* MockUnifiedAPI: projects and folders

\* list_projects()
Mock_list_projects ==
    /\ mcall.pc = "idle"
    /\ Returned("list_projects", <<>>, Values(projects))
    /\ UNCHANGED <<tasks, projects, folders, tags, id_counter, facadeVars>>

\* create_project(name, group_id=group_id)
Mock_create_project(name, group_id) ==
    /\ mcall.pc = "idle"
    /\ LET id      == id_counter + 1
           project == ProjectFactory(id, name, group_id)
       IN  /\ id_counter' = id
           /\ projects' = With(projects, id, project)
           /\ Returned("create_project", <<name, group_id>>, project)
    /\ UNCHANGED <<tasks, folders, tags, facadeVars>>

\* Mutant: the project is deleted and its tasks are kept.
TasksAfterDeleteProjectKept(project_id) == tasks

\* self.tasks = {k: v for k, v in self.tasks.items() if v.project_id != project_id}
TasksAfterDeleteProject(project_id) ==
    [id \in {k \in DOMAIN tasks : tasks[k].project_id # project_id} |-> tasks[id]]

\* delete_project(project_id)
Mock_delete_project(project_id) ==
    /\ mcall.pc = "idle"
    /\ IF project_id \notin DOMAIN projects
       THEN NotFound("delete_project", <<project_id>>, "Project not found")
       ELSE /\ projects' = Without(projects, project_id)
            /\ tasks' = TasksAfterDeleteProject(project_id)
            /\ Returned("delete_project", <<project_id>>, <<>>)
            /\ UNCHANGED <<folders, tags, id_counter>>
    /\ UNCHANGED facadeVars

\* list_project_groups()
Mock_list_project_groups ==
    /\ mcall.pc = "idle"
    /\ Returned("list_project_groups", <<>>, Values(folders))
    /\ UNCHANGED <<tasks, projects, folders, tags, id_counter, facadeVars>>

\* create_project_group(name)
Mock_create_project_group(name) ==
    /\ mcall.pc = "idle"
    /\ LET id     == id_counter + 1
           folder == FolderFactory(id, name)
       IN  /\ id_counter' = id
           /\ folders' = With(folders, id, folder)
           /\ Returned("create_project_group", <<name>>, folder)
    /\ UNCHANGED <<tasks, projects, tags, facadeVars>>

\* Mutant: every project is ungrouped, whatever folder it was in.
UngroupedAll(project, group_id) == [project EXCEPT !.group_id = NoId]

\* if project.group_id == group_id: project.group_id = None
Ungrouped(project, group_id) ==
    IF project.group_id = group_id
    THEN [project EXCEPT !.group_id = NoId]
    ELSE project

\* Mutant: the folder is deleted and its projects keep its id.
Mock_delete_project_group_only(group_id) ==
    /\ mcall.pc = "idle"
    /\ IF group_id \notin DOMAIN folders
       THEN NotFound("delete_project_group", <<group_id>>, "Folder not found")
       ELSE /\ folders' = Without(folders, group_id)
            /\ Returned("delete_project_group", <<group_id>>, <<>>)
            /\ UNCHANGED <<tasks, projects, tags, id_counter>>
    /\ UNCHANGED facadeVars

\* delete_project_group(group_id)
Mock_delete_project_group(group_id) ==
    /\ mcall.pc = "idle"
    /\ IF group_id \notin DOMAIN folders
       THEN NotFound("delete_project_group", <<group_id>>, "Folder not found")
       ELSE /\ folders' = Without(folders, group_id)
            /\ projects' = [id \in DOMAIN projects |->
                               Ungrouped(projects[id], group_id)]
            /\ Returned("delete_project_group", <<group_id>>, <<>>)
            /\ UNCHANGED <<tasks, tags, id_counter>>
    /\ UNCHANGED facadeVars

----------------------------------------------------------------------------
\* The tag operations under the arguments a caller passes

\* Tasks created in a run of the tag operations.
MaxTasks == 2

\* A facade object constructed with full settings; the calls below go to the
\* reference implementation and leave it as constructed.
MockInit == Init /\ cfg.v1ok /\ cfg.v2ok /\ cfg.creds

\* Labels and names callers pass, in several casings.
Labels == {<<"a">>, <<"A">>, <<"b">>, <<"B">>}

\* The color and parent a caller gives a new tag: neither, or both.
TagStyles == {[color |-> None, parent |-> NoName],
              [color |-> "#F00", parent |-> <<"b">>]}

\* Tag names as tasks carry them: lowercase, each at most once in a list.
TagNames == {<<"a">>, <<"b">>}

TagLists ==
    {<<>>} \cup {<<x>> : x \in TagNames}
           \cup {<<x, y>> : <<x, y>> \in {p \in TagNames \X TagNames : p[1] # p[2]}}

\* One call of create_task or of a tag operation, or the caller resuming.
TagNext ==
    \/ /\ id_counter < MaxTasks
       /\ \E ts \in TagLists : Mock_create_task("x", NoId, ts, NoId)
    \/ \E name \in Labels, style \in TagStyles :
           Mock_create_tag(name, style.color, style.parent)
    \/ \E name \in Labels : Mock_delete_tag(name)
    \/ \E old, new \in Labels : Mock_rename_tag(old, new)
    \/ \E source, target \in Labels : Mock_merge_tags(source, target)
    \/ Mock_list_tags
    \/ MockReturn

TagSpec == MockInit /\ [][TagNext]_vars

----------------------------------------------------------------------------
\* Properties of the tag operations

\* Number of times x occurs in the list ts.
Count(ts, x) == Cardinality({i \in DOMAIN ts : ts[i] = x})

\* The recorded call is a finished call of method op.
Done(op) == mcall.pc = "done" /\ mcall.op = op

\* The canonical name of the k-th argument of the recorded call.
ArgName(k) == Lower(mcall.args[k])

\* The recorded call is merge_tags(source, target) on two stored tags.
MergedExisting ==
    /\ Done("merge_tags")
    /\ ArgName(1) \in DOMAIN mcall.pre.tags
    /\ ArgName(2) \in DOMAIN mcall.pre.tags

\* C12: for all tags source and target that both exist, after
\* merge_tags(source, target) list_tags() has no entry named source, no task's
\* tag list contains source, and every task that held source holds target
\* exactly once, also when it held target before the merge.
C12_MergeMovesTasks ==
    MergedExisting =>
        /\ mcall.out = "return"
        /\ \A tag \in Values(tags) : tag.name # ArgName(1)
        /\ \A id \in DOMAIN tasks :
              /\ ArgName(1) \notin Range(tasks[id].tags)
              /\ ArgName(1) \in Range(mcall.pre.tasks[id].tags)
                    => Count(tasks[id].tags, ArgName(2)) = 1

\* C13: merge_tags checks both names before it changes anything: a missing
\* source raises the not-found error of the source, a missing target (with
\* the source present) raises the distinct not-found error of the target, and
\* in both cases every tag entry and every task's tag list is as before.
C13_MergeValidatesFirst ==
    Done("merge_tags") =>
        /\ ArgName(1) \notin DOMAIN mcall.pre.tags =>
              /\ mcall.out = NotFoundError
              /\ mcall.msg = "Source tag not found"
              /\ tags = mcall.pre.tags /\ tasks = mcall.pre.tasks
        /\ (ArgName(1) \in DOMAIN mcall.pre.tags
                /\ ArgName(2) \notin DOMAIN mcall.pre.tags) =>
              /\ mcall.out = NotFoundError
              /\ mcall.msg = "Target tag not found"
              /\ tags = mcall.pre.tags /\ tasks = mcall.pre.tasks

\* C13 witness: a merge into a missing target was refused while a task
\* carried the source tag.
C13_Witness ==
    /\ Done("merge_tags")
    /\ mcall.msg = "Target tag not found"
    /\ \E id \in DOMAIN tasks : ArgName(1) \in Range(tasks[id].tags)

\* C14: for all existing tags source and target, after
\* merge_tags(source, target) the target is still listed by list_tags() and
\* only the source entry has left the tag set.
C14_MergeKeepsTarget ==
    MergedExisting =>
        /\ \E tag \in Values(tags) : tag.name = ArgName(2)
        /\ DOMAIN tags = DOMAIN mcall.pre.tags \ {ArgName(1)}
        /\ \A n \in DOMAIN tags : tags[n] = mcall.pre.tags[n]

\* C15: for every existing tag, after delete_tag(name) list_tags() has no
\* entry of that name and no task has the name in its tag list, however many
\* tasks carried it.
C15_DeleteTagCascades ==
    (Done("delete_tag") /\ ArgName(1) \in DOMAIN mcall.pre.tags) =>
        /\ mcall.out = "return"
        /\ \A tag \in Values(tags) : tag.name # ArgName(1)
        /\ \A id \in DOMAIN tasks :
              ArgName(1) \notin Range(LowerAll(tasks[id].tags))

\* C15 witness: a tag carried by two tasks was deleted.
C15_Witness ==
    /\ Done("delete_tag")
    /\ mcall.out = "return"
    /\ Cardinality({id \in DOMAIN mcall.pre.tasks :
                       ArgName(1) \in Range(mcall.pre.tasks[id].tags)}) >= 2

\* The recorded call is rename_tag(old, new_label) on a stored tag.
RenamedExisting ==
    Done("rename_tag") /\ ArgName(1) \in DOMAIN mcall.pre.tags

\* After the recorded rename the tag is stored under lowercase(new_label)
\* with that name, the given label and its old color and parent, and every
\* entry of a task's tag list that named old names the new name.
RenameMoved ==
    /\ mcall.out = "return"
    /\ ArgName(2) \in DOMAIN tags
    /\ tags[ArgName(2)].name = ArgName(2)
    /\ tags[ArgName(2)].label = mcall.args[2]
    /\ tags[ArgName(2)].color = mcall.pre.tags[ArgName(1)].color
    /\ tags[ArgName(2)].parent = mcall.pre.tags[ArgName(1)].parent
    /\ \A id \in DOMAIN tasks :
          /\ Len(tasks[id].tags) = Len(mcall.pre.tasks[id].tags)
          /\ \A i \in DOMAIN tasks[id].tags :
                Lower(mcall.pre.tasks[id].tags[i]) = ArgName(1)
                    => tasks[id].tags[i] = ArgName(2)

\* C16 as stated: after rename_tag(old, new_label) on an existing tag no tag
\* is stored under old, the tag is stored under lowercase(new_label) with
\* name = lowercase(new_label) and label = new_label, color and parent are
\* unchanged, and every occurrence of old in a task's tag list is replaced
\* by the new name.
C16_RenameMovesTag ==
    RenamedExisting => (ArgName(1) \notin DOMAIN tags /\ RenameMoved)

\* C16 as amended: the same, except that old is vacated only when
\* lowercase(new_label) differs from old; a rename that changes only the
\* casing leaves the tag under its key with the new label.
C16_RenameMovesTagUnlessSameName ==
    RenamedExisting =>
        /\ RenameMoved
        /\ ArgName(2) # ArgName(1) => ArgName(1) \notin DOMAIN tags

\* C16 witness: a colored tag carried by a task was renamed to another name.
C16_Witness ==
    /\ RenamedExisting
    /\ ArgName(2) # ArgName(1)
    /\ mcall.pre.tags[ArgName(1)].color = "#F00"
    /\ \E id \in DOMAIN tasks : ArgName(1) \in Range(mcall.pre.tasks[id].tags)

----------------------------------------------------------------------------
\* Folders, projects and tasks under the arguments a caller passes

\* Folders, projects and tasks created in a run (the ids IDGenerator hands out).
MaxIds == 4

\* The ids a caller passes: every id handed out so far, whatever it was
\* given to and whether or not it is still stored.
Ids == 1 .. id_counter

\* One call on the folders, projects and tasks, or the caller resuming.
FolderNext ==
    \/ /\ id_counter < MaxIds
       /\ Mock_create_project_group("F")
    \/ /\ id_counter < MaxIds
       /\ \E g \in {NoId} \cup Ids : Mock_create_project("P", g)
    \/ /\ id_counter < MaxIds
       /\ \E p \in {NoId} \cup Ids : Mock_create_task("x", p, <<<<"b">>>>, NoId)
    \/ \E g \in Ids : Mock_delete_project_group(g)
    \/ \E p \in Ids : Mock_delete_project(p)
    \/ Mock_list_projects
    \/ Mock_list_project_groups
    \/ MockReturn

FolderSpec == MockInit /\ [][FolderNext]_vars

\* The same with a tag "a" that is created, renamed to "b" and deleted.
StoreNext ==
    \/ FolderNext
    \/ Mock_create_tag(<<"A">>, None, NoName)
    \/ \E name \in {<<"a">>, <<"B">>} : Mock_delete_tag(name)
    \/ \E old \in {<<"a">>, <<"B">>} : Mock_rename_tag(old, <<"b">>)

StoreSpec == MockInit /\ [][StoreNext]_vars

----------------------------------------------------------------------------
\* Properties of the folder and project operations

\* The recorded call names a tag or a folder that is not stored.
OnMissing ==
    \/ (Done("delete_tag") /\ ArgName(1) \notin DOMAIN mcall.pre.tags)
    \/ (Done("rename_tag") /\ ArgName(1) \notin DOMAIN mcall.pre.tags)
    \/ (Done("delete_project_group")
            /\ mcall.args[1] \notin DOMAIN mcall.pre.folders)

\* C17: delete_tag and rename_tag on a name that is not a stored tag, and
\* delete_project_group on an id that is not a stored folder, raise a
\* not-found error and leave the stored tags, folders, projects and tasks
\* unchanged.
C17_MissingRaisesNotFound ==
    OnMissing => (mcall.out = NotFoundError /\ Snapshot = mcall.pre)

\* C17 witness: with all four stores filled, delete_tag was refused for a
\* name that a task carries and no tag entry has.
C17_Witness ==
    /\ Done("delete_tag")
    /\ mcall.out = NotFoundError
    /\ tags # <<>> /\ folders # <<>> /\ projects # <<>>
    /\ \E id \in DOMAIN tasks : ArgName(1) \in Range(tasks[id].tags)

\* C18: after delete_project_group(f) on an existing folder, f is no longer
\* listed, every project that had group_id = f still exists with group_id
\* null, no project and no task is deleted, and the projects of other
\* folders and all tasks are unchanged.
C18_DeleteFolderUngroups ==
    (Done("delete_project_group") /\ mcall.args[1] \in DOMAIN mcall.pre.folders)
    =>  /\ mcall.out = "return"
        /\ \A folder \in Values(folders) : folder.id # mcall.args[1]
        /\ DOMAIN projects = DOMAIN mcall.pre.projects
        /\ \A p \in DOMAIN projects :
              IF mcall.pre.projects[p].group_id = mcall.args[1]
              THEN projects[p] = [mcall.pre.projects[p] EXCEPT !.group_id = NoId]
              ELSE projects[p] = mcall.pre.projects[p]
        /\ tasks = mcall.pre.tasks

\* C18 witness: a folder that held a project was deleted while another
\* project sat in another folder.
C18_Witness ==
    /\ Done("delete_project_group")
    /\ mcall.out = "return"
    /\ \E p, q \in DOMAIN projects :
          /\ mcall.pre.projects[p].group_id = mcall.args[1]
          /\ projects[q].group_id \in DOMAIN folders

\* C19: after delete_project(p) on an existing project, p is no longer
\* listed, every task whose project_id was p is gone, and every task of
\* another project is still present and unchanged.
C19_DeleteProjectCascades ==
    (Done("delete_project") /\ mcall.args[1] \in DOMAIN mcall.pre.projects)
    =>  /\ mcall.out = "return"
        /\ \A project \in Values(projects) : project.id # mcall.args[1]
        /\ \A t \in DOMAIN mcall.pre.tasks :
              IF mcall.pre.tasks[t].project_id = mcall.args[1]
              THEN t \notin DOMAIN tasks
              ELSE t \in DOMAIN tasks /\ tasks[t] = mcall.pre.tasks[t]

\* C19 witness: a project with a task was deleted while another project
\* had a task of its own.
C19_Witness ==
    /\ Done("delete_project")
    /\ mcall.out = "return"
    /\ \E t \in DOMAIN mcall.pre.tasks :
          mcall.pre.tasks[t].project_id = mcall.args[1]
    /\ \E t \in DOMAIN tasks : tasks[t].project_id \in DOMAIN projects

----------------------------------------------------------------------------
\* MockUnifiedAPI: reading a task and the parent relation

\* return self.tasks[task_id]
StoredTask(task_id) == tasks[task_id]

\* get_task(task_id)
Mock_get_task(task_id) ==
    /\ mcall.pc = "idle"
    /\ IF task_id \notin DOMAIN tasks
       THEN NotFound("get_task", <<task_id>>, "Task not found")
       ELSE /\ Returned("get_task", <<task_id>>, StoredTask(task_id))
            /\ UNCHANGED <<tasks, projects, folders, tags, id_counter>>
    /\ UNCHANGED facadeVars

\* Mutant: the child is appended without looking for it in the list.
ChildIdsAppended(child_ids, task_id) == Append(child_ids, task_id)

\* if task_id not in parent.child_ids: parent.child_ids.append(task_id)
ChildIdsWith(child_ids, task_id) ==
    IF task_id \in Range(child_ids) THEN child_ids ELSE Append(child_ids, task_id)

\* The two writes of set_task_parent, in their order: the task's parent_id,
\* then the child_ids of the parent if the parent is stored.
TasksAfterSetParent(task_id, parent_id) ==
    LET linked == [tasks EXCEPT ![task_id].parent_id = parent_id]
    IN  IF parent_id \in DOMAIN linked
        THEN [linked EXCEPT ![parent_id].child_ids = ChildIdsWith(@, task_id)]
        ELSE linked

\* set_task_parent(task_id, project_id, parent_id)
Mock_set_task_parent(task_id, project_id, parent_id) ==
    /\ mcall.pc = "idle"
    /\ IF task_id \notin DOMAIN tasks
       THEN NotFound("set_task_parent", <<task_id, project_id, parent_id>>,
                     "Task not found")
       ELSE /\ tasks' = TasksAfterSetParent(task_id, parent_id)
            /\ Returned("set_task_parent", <<task_id, project_id, parent_id>>,
                        <<>>)
            /\ UNCHANGED <<projects, folders, tags, id_counter>>
    /\ UNCHANGED facadeVars

\* Tasks created in a run of the parent operations.
MaxTreeTasks == 2

\* One call of create_task, set_task_parent or get_task, or the caller
\* resuming.
TreeNext ==
    \/ /\ id_counter < MaxTreeTasks
       /\ Mock_create_task("x", NoId, <<>>, NoId)
    \/ \E c \in Ids, p \in Ids : Mock_set_task_parent(c, MockInboxId, p)
    \/ \E t \in Ids : Mock_get_task(t)
    \/ MockReturn

TreeSpec == MockInit /\ [][TreeNext]_vars

\* C20: after set_task_parent(child, parent) on existing tasks a fresh
\* get_task(child) has parent_id = parent and a fresh get_task(parent) has
\* child in child_ids exactly once, also when the same call is repeated.
C20_SetParentLinksBoth ==
    (Done("set_task_parent") /\ mcall.args[1] \in DOMAIN mcall.pre.tasks
                             /\ mcall.args[3] \in DOMAIN mcall.pre.tasks)
    =>  /\ mcall.out = "return"
        /\ StoredTask(mcall.args[1]).parent_id = mcall.args[3]
        /\ Count(StoredTask(mcall.args[3]).child_ids, mcall.args[1]) = 1

\* C20 witness: set_task_parent(child, parent) was repeated on a child that
\* already had this parent.
C20_Witness ==
    /\ Done("set_task_parent")
    /\ mcall.out = "return"
    /\ mcall.args[1] # mcall.args[3]
    /\ mcall.args[3] \in DOMAIN mcall.pre.tasks
    /\ mcall.pre.tasks[mcall.args[1]].parent_id = mcall.args[3]
    /\ mcall.args[1] \in Range(mcall.pre.tasks[mcall.args[3]].child_ids)

----------------------------------------------------------------------------
\* The parent relation under re-parenting

\* Tasks created in a run of re-parenting calls: a child and two parents.
MaxReparentTasks == 3

\* One call of create_task or set_task_parent, or the caller resuming.
ReparentNext ==
    \/ /\ id_counter < MaxReparentTasks
       /\ Mock_create_task("x", NoId, <<>>, NoId)
    \/ \E c \in Ids, p \in Ids : Mock_set_task_parent(c, MockInboxId, p)
    \/ MockReturn

ReparentSpec == MockInit /\ [][ReparentNext]_vars

\* C21 (as claimed): after any sequence of set_task_parent calls, for all
\* stored tasks p and c, c is in p.child_ids if and only if c.parent_id = p.
C21_ChildIdsMatchParentId ==
    \A p, c \in DOMAIN tasks :
        (c \in Range(tasks[p].child_ids)) <=> (tasks[c].parent_id = p)

\* The parent of a task, n links up (NoId once the chain has ended).
RECURSIVE NthParent(_, _)
NthParent(t, n) ==
    IF t \notin DOMAIN tasks THEN NoId
    ELSE IF n = 1 THEN tasks[t].parent_id
    ELSE NthParent(tasks[t].parent_id, n - 1)

\* C22 (as claimed): no sequence of set_task_parent calls makes a task its
\* own parent or an ancestor of itself; the tasks form a forest.
C22_ParentsFormForest ==
    \A t \in DOMAIN tasks :
        \A n \in 1 .. Cardinality(DOMAIN tasks) : NthParent(t, n) # t

----------------------------------------------------------------------------
\* MockUnifiedAPI: completing a task, and reading back a created task

\* Readings of the clock, utc_now(); 0 stands for "no time" (None).
MaxTime == 2

\* The clock does not run backwards: a reading is no earlier than any time
\* already stored.
ClockReadings ==
    {now \in 1 .. MaxTime :
        \A id \in DOMAIN tasks : tasks[id].completed_time <= now}

\* task.status = TaskStatus.COMPLETED; task.completed_time = utc_now()
Completed(task, now) ==
    [task EXCEPT !.status = "COMPLETED", !.completed_time = now]

\* complete_task(task_id, project_id), utc_now() reading now
Mock_complete_task(task_id, project_id, now) ==
    /\ mcall.pc = "idle"
    /\ IF task_id \notin DOMAIN tasks
       THEN NotFound("complete_task", <<task_id, project_id>>, "Task not found")
       ELSE /\ tasks' = [tasks EXCEPT ![task_id] = Completed(@, now)]
            /\ Returned("complete_task", <<task_id, project_id>>, <<>>)
            /\ UNCHANGED <<projects, folders, tags, id_counter>>
    /\ UNCHANGED facadeVars

\* Titles a caller gives, the empty one included.
Titles == {"", "Buy milk", "Test Task"}

\* Task ids a caller passes: those drawn so far and one never drawn.
AskedIds == 1 .. (id_counter + 1)

\* One call of create_task, get_task or complete_task, or the caller
\* resuming.
TaskNext ==
    \/ /\ id_counter < MaxTasks
       /\ \E title \in Titles : Mock_create_task(title, NoId, <<>>, NoId)
    \/ \E t \in AskedIds : Mock_get_task(t)
    \/ \E t \in AskedIds, now \in ClockReadings :
           Mock_complete_task(t, MockInboxId, now)
    \/ MockReturn

TaskSpec == MockInit /\ [][TaskNext]_vars

\* C23 (as claimed): complete_task on a task that is already completed
\* leaves the observable state as the first complete_task left it.
C23_CompleteTwiceAsOnce ==
    (/\ Done("complete_task")
     /\ mcall.args[1] \in DOMAIN mcall.pre.tasks
     /\ mcall.pre.tasks[mcall.args[1]].status = "COMPLETED")
    =>  /\ mcall.out = "return"
        /\ tasks = mcall.pre.tasks

\* C24: create_task(title) stores, under the id of the task it returns, a
\* task with that id and the given title, and get_task(id) on a stored task
\* returns the stored task, whose id is the id asked for; so a get_task of
\* the returned id right after create_task gives the same id and the title.
C24_CreateThenGet ==
    /\ Done("create_task") =>
          /\ mcall.out = "return"
          /\ mcall.res.id \notin DOMAIN mcall.pre.tasks
          /\ mcall.res.id \in DOMAIN tasks
          /\ StoredTask(mcall.res.id).id = mcall.res.id
          /\ StoredTask(mcall.res.id).title = mcall.args[1]
    /\ (Done("get_task") /\ mcall.args[1] \in DOMAIN mcall.pre.tasks) =>
          /\ mcall.out = "return"
          /\ mcall.res = mcall.pre.tasks[mcall.args[1]]
          /\ mcall.res.id = mcall.args[1]
    /\ \A id \in DOMAIN tasks : \E title \in Titles :
          tasks[id].id = id /\ tasks[id].title = title

\* C24 witness: get_task returned the second of two tasks created with
\* different titles, one of them the empty title.
C24_Witness ==
    /\ Done("get_task")
    /\ mcall.out = "return"
    /\ mcall.args[1] = 2
    /\ mcall.res.title = "Buy milk"
    /\ tasks[1].title = ""

----------------------------------------------------------------------------
\* create_project and the folder of the new project

\* Whether an upstream call of create_project is given group_id: the V2 call
\* (api.py 655-661) has the argument, the V1 call (668-673) has not.
SendsGroupId(e) == e.m = "create_project" /\ e.api = "B"

\* C25 (as claimed): create_project called with the id g of an existing
\* folder returns a project whose group_id is g; the project it returns was
\* therefore created by an upstream call that was given g.
C25_CreateProjectInFolder ==
    (call.pc = "done" /\ call.op = "create_project" /\ call.out = "return")
    =>  \E w \in DOMAIN call.log :
            /\ SendsGroupId(call.log[w])
            /\ call.log[w].resp = "ok"
            /\ call.res.id = call.log[w].id

\* The reference implementation of create_project keeps the folder id it is
\* given, null included, on the project it returns and stores.
CreateProjectKeepsGroupId ==
    Done("create_project") =>
        /\ mcall.out = "return"
        /\ mcall.res.group_id = mcall.args[2]
        /\ mcall.res.id \in DOMAIN projects
        /\ projects[mcall.res.id] = mcall.res

----------------------------------------------------------------------------
\* Tag names and labels with several words

\* Labels callers give a tag: one word, and two words with a space.
SpacedLabels == {<<"A">>, <<"A", " ", "b">>, <<"a", "b">>}

\* One call of create_tag, rename_tag, delete_tag or list_tags, or the caller
\* resuming.
LabelNext ==
    \/ \E name \in SpacedLabels : Mock_create_tag(name, None, NoName)
    \/ \E old, new \in SpacedLabels : Mock_rename_tag(old, new)
    \/ \E name \in SpacedLabels : Mock_delete_tag(name)
    \/ Mock_list_tags
    \/ MockReturn

LabelSpec == MockInit /\ [][LabelNext]_vars

\* C26 (as claimed): the tag create_tag(label) returns has the given label
\* and the lowercased label as name, and every stored tag has
\* name = lowercase(label), whether it was renamed or not.
C26_NameIsLowercasedLabel ==
    /\ Done("create_tag") =>
          /\ mcall.out = "return"
          /\ mcall.res.label = mcall.args[1]
          /\ mcall.res.name = Lower(mcall.args[1])
    /\ \A n \in DOMAIN tags : tags[n].name = Lower(tags[n].label)

\* C28 (as claimed): tasks are created with duplicate-free tag lists, and no
\* sequence of delete_tag, rename_tag and merge_tags leaves a task with the
\* same tag name twice in its list.
C28_TagListsStaySetLike ==
    \A id \in DOMAIN tasks :
        \A x \in Range(tasks[id].tags) : Count(tasks[id].tags, x) = 1

\* The given name and the stored name are the same up to the case of their
\* letters.
SameIgnoringCase(given, name) ==
    /\ Len(given) = Len(name)
    /\ \A i \in DOMAIN given : LowerChar(given[i]) = LowerChar(name[i])

\* The stored tags that the k-th argument of the recorded call names.
Matching(k) ==
    {n \in DOMAIN mcall.pre.tags : SameIgnoringCase(mcall.args[k], n)}

\* The recorded call was refused and changed nothing.
RefusedUnchanged ==
    /\ mcall.out = NotFoundError
    /\ tags = mcall.pre.tags
    /\ tasks = mcall.pre.tasks

\* Every tag of the set S is stored as it was before the call.
Untouched(S) == \A n \in S : n \in DOMAIN tags /\ tags[n] = mcall.pre.tags[n]

\* C27: delete_tag, rename_tag and merge_tags find a tag by the given name
\* whatever its casing: the call is refused iff no stored tag has the given
\* name up to case, at most one stored tag matches, and the call acts on that
\* tag and leaves every other tag entry as it was.
C27_TagsFoundIgnoringCase ==
    /\ (Done("delete_tag") \/ Done("rename_tag") \/ Done("merge_tags")) =>
          \A k \in DOMAIN mcall.args : Cardinality(Matching(k)) <= 1
    /\ Done("delete_tag") =>
          IF Matching(1) = {} THEN RefusedUnchanged
          ELSE /\ mcall.out = "return"
               /\ DOMAIN tags = DOMAIN mcall.pre.tags \ Matching(1)
               /\ Untouched(DOMAIN tags)
               /\ \A id \in DOMAIN tasks :
                     tasks[id].tags =
                        SelectSeq(mcall.pre.tasks[id].tags,
                            LAMBDA t : ~SameIgnoringCase(mcall.args[1], t))
    /\ Done("rename_tag") =>
          IF Matching(1) = {} THEN RefusedUnchanged
          ELSE /\ mcall.out = "return"
               /\ \E new \in DOMAIN tags :
                     /\ SameIgnoringCase(mcall.args[2], new)
                     /\ tags[new].label = mcall.args[2]
                     /\ \A old \in Matching(1) :
                           /\ tags[new].color = mcall.pre.tags[old].color
                           /\ tags[new].parent = mcall.pre.tags[old].parent
                     /\ DOMAIN tags = (DOMAIN mcall.pre.tags \ Matching(1))
                                          \cup {new}
                     /\ Untouched(DOMAIN tags \ {new})
    /\ Done("merge_tags") =>
          IF Matching(1) = {} \/ Matching(2) = {} THEN RefusedUnchanged
          ELSE /\ mcall.out = "return"
               /\ DOMAIN tags = DOMAIN mcall.pre.tags \ Matching(1)
               /\ Untouched(DOMAIN tags)

\* C27 witness: delete_tag("A") removed the tag stored as "a" from the tag
\* set and from a task while the tag "b" stayed.
C27_Witness ==
    /\ Done("delete_tag")
    /\ mcall.out = "return"
    /\ mcall.args[1] = <<"A">>
    /\ <<"b">> \in DOMAIN tags
    /\ \E id \in DOMAIN tasks : <<"a">> \in Range(mcall.pre.tasks[id].tags)

----------------------------------------------------------------------------
\* Client handles over the life of the facade

\* The V1 and V2 handles constructed so far: every initialize() run that got
\* past the first test constructed those clients whose constructor succeeds.
BuiltV1 == IF cfg.v1ok THEN 1 .. gen ELSE {}

BuiltV2 == IF cfg.v2ok THEN 1 .. gen ELSE {}

\* C29 (as claimed): when close() completes while no initialize() is running,
\* every client handle constructed by an initialize() of this facade,
\* successful or failed, has been closed.
C29_CloseLeavesNoHandleOpen ==
    [][(/\ ccall.pc # "idle"
        /\ ccall'.pc = "idle"
        /\ \A i \in InitCallers : icall[i].pc = "idle")
       => (BuiltV1' \subseteq closedV1' /\ BuiltV2' \subseteq closedV2')]_vars

----------------------------------------------------------------------------
\* Authentication and not-found errors of an upstream

AuthenticationError == "TickTickAuthenticationError"

\* C30: an authentication error of an upstream call ends the operation: no
\* other upstream call follows and the caller gets the authentication error.
\* A not-found error is followed by another upstream call only on get_task's
\* fallback from V2 to V1; otherwise it ends the operation and the caller
\* gets the not-found error, or, for get_task's V2 read with no fallback to
\* go to, UpstreamUnavailable naming get_task.
C30_AuthAndNotFoundNotRetried ==
    \A j \in DOMAIN call.log :
        /\ call.log[j].resp = "auth" =>
              /\ j = Len(call.log)
              /\ call.pc = "done"
              /\ call.out = AuthenticationError
        /\ call.log[j].resp = "notfound" =>
              IF j < Len(call.log)
              THEN /\ call.log[j].api = "B"
                   /\ call.log[j].m = "get_task"
                   /\ call.log[j + 1].api = "A"
                   /\ call.log[j + 1].m = "get_task"
                   /\ j + 1 = Len(call.log)
              ELSE /\ call.pc = "done"
                   /\ \/ call.out = NotFoundError
                      \/ /\ call.log[j].api = "B"
                         /\ call.log[j].m = "get_task"
                         /\ call.out = UnavailableError
                         /\ call.operation = "get_task"

\* C30 witness: get_task with a project_id on a facade with both upstreams
\* got an authentication error from V2 and raised it without calling V1.
C30_Witness ==
    /\ call.pc = "done"
    /\ call.op = "get_task"
    /\ call.pid = ProjectId
    /\ call.cap0.v1 /\ call.cap0.v2
    /\ has_v1(router)
    /\ Len(call.log) = 1
    /\ call.log[1].api = "B"
    /\ call.log[1].resp = "auth"
    /\ call.out = AuthenticationError

----------------------------------------------------------------------------
\* The tool layer: handle_error (src/src/ticktick_mcp/server.py)

\* type(e).__name__ of the exceptions a tool can catch, as the sequence of
\* its characters: the six error classes of the package and two of Python's
\* own.
Name_TickTickAuthenticationError ==
    <<"T", "i", "c", "k", "T", "i", "c", "k", "A", "u", "t", "h", "e", "n",
      "t", "i", "c", "a", "t", "i", "o", "n", "E", "r", "r", "o", "r">>

Name_TickTickNotFoundError ==
    <<"T", "i", "c", "k", "T", "i", "c", "k", "N", "o", "t", "F", "o", "u",
      "n", "d", "E", "r", "r", "o", "r">>

Name_TickTickValidationError ==
    <<"T", "i", "c", "k", "T", "i", "c", "k", "V", "a", "l", "i", "d", "a",
      "t", "i", "o", "n", "E", "r", "r", "o", "r">>

Name_TickTickConfigurationError ==
    <<"T", "i", "c", "k", "T", "i", "c", "k", "C", "o", "n", "f", "i", "g",
      "u", "r", "a", "t", "i", "o", "n", "E", "r", "r", "o", "r">>

Name_TickTickAPIUnavailableError ==
    <<"T", "i", "c", "k", "T", "i", "c", "k", "A", "P", "I", "U", "n", "a",
      "v", "a", "i", "l", "a", "b", "l", "e", "E", "r", "r", "o", "r">>

Name_TickTickAPIError ==
    <<"T", "i", "c", "k", "T", "i", "c", "k", "A", "P", "I", "E", "r", "r",
      "o", "r">>

Name_ValueError ==
    <<"V", "a", "l", "u", "e", "E", "r", "r", "o", "r">>

Name_FileNotFoundError ==
    <<"F", "i", "l", "e", "N", "o", "t", "F", "o", "u", "n", "d", "E", "r",
      "r", "o", "r">>

ErrorTypes ==
    {Name_TickTickAuthenticationError, Name_TickTickNotFoundError,
     Name_TickTickValidationError, Name_TickTickConfigurationError,
     Name_TickTickAPIUnavailableError, Name_TickTickAPIError,
     Name_ValueError, Name_FileNotFoundError}

\* The words handle_error looks for in the class name.
Word_Authentication ==
    <<"A", "u", "t", "h", "e", "n", "t", "i", "c", "a", "t", "i", "o", "n">>

Word_NotFound ==
    <<"N", "o", "t", "F", "o", "u", "n", "d">>

Word_Validation ==
    <<"V", "a", "l", "i", "d", "a", "t", "i", "o", "n">>

Word_Configuration ==
    <<"C", "o", "n", "f", "i", "g", "u", "r", "a", "t", "i", "o", "n">>

\* word in error_type
Contains(error_type, word) ==
    \E i \in 1 .. Len(error_type) - Len(word) + 1 :
        SubSeq(error_type, i, i + Len(word) - 1) = word

\* handle_error(e, operation), lines 138-163: the arguments it gives
\* error_message; text is str(e).
HandleError(error_type, text) ==
    IF Contains(error_type, Word_Authentication)
    THEN [category |-> "Authentication failed", detail |-> None,
          hint |-> "credentials"]
    ELSE IF Contains(error_type, Word_NotFound)
    THEN [category |-> "Resource not found", detail |-> text, hint |-> "id"]
    ELSE IF Contains(error_type, Word_Validation)
    THEN [category |-> "Invalid input", detail |-> text, hint |-> None]
    ELSE IF Contains(error_type, Word_Configuration)
    THEN [category |-> "Configuration error", detail |-> text,
          hint |-> "settings"]
    ELSE [category |-> "Unexpected error", detail |-> text, hint |-> None]

\* str(e) of the exception and the operation name the tool passes.
ErrorTexts == {"", "t1", "Could not get task"}

ToolOperations ==
    {"create_task", "get_task", "update_task", "complete_task",
     "create_project", "delete_tag", "sync"}

\* A tool's "except Exception as e: return handle_error(e, operation)".
Tool_handle_error ==
    /\ handled.pc = "idle"
    /\ \E error_type \in ErrorTypes, text \in ErrorTexts,
          operation \in ToolOperations :
          handled' = [pc |-> "done", error_type |-> error_type, text |-> text,
                      operation |-> operation,
                      res |-> HandleError(error_type, text)]
    /\ UNCHANGED <<lifeVars, call, mockVars>>

\* The tool returns the message.
ToolReturn ==
    /\ handled.pc = "done"
    /\ handled' = IdleHandled
    /\ UNCHANGED <<lifeVars, call, mockVars>>

ToolNext == Tool_handle_error \/ ToolReturn

ToolSpec == MockInit /\ [][ToolNext]_vars

\* The kind of an error by its class: the four kinds with a category of
\* their own, and "other" for every other error.
KindOf(error_type) ==
    CASE error_type = Name_TickTickAuthenticationError -> "authentication"
      [] error_type = Name_TickTickNotFoundError -> "not-found"
      [] error_type = Name_TickTickValidationError -> "validation"
      [] error_type = Name_TickTickConfigurationError -> "configuration"
      [] OTHER -> "other"

\* The message category of each kind.
CategoryOf(kind) ==
    CASE kind = "authentication" -> "Authentication failed"
      [] kind = "not-found" -> "Resource not found"
      [] kind = "validation" -> "Invalid input"
      [] kind = "configuration" -> "Configuration error"
      [] OTHER -> "Unexpected error"

\* C31 (as claimed): handle_error gives every error the category of its
\* kind: authentication, not-found, validation and configuration errors
\* their own, every other error (upstream-unavailable included) the generic
\* one.
C31_CategoryByKind ==
    handled.pc = "done" =>
        handled.res.category = CategoryOf(KindOf(handled.error_type))

\* handle_error gives the six error classes of the package the category the
\* claim names.
PackageErrorsByKind ==
    (handled.pc = "done" /\ handled.error_type # Name_FileNotFoundError) =>
        handled.res.category = CategoryOf(KindOf(handled.error_type))

----------------------------------------------------------------------------
\* MockUnifiedAPI.seed_data

\* The numbers of tasks, projects, folders and tags a caller asks for.
MaxSeedTasks == 4

MaxSeedOthers == 2

\* tag_labels = ["work", "personal", "urgent", "later"]
SeedLabels ==
    << <<"w", "o", "r", "k">>,
       <<"p", "e", "r", "s", "o", "n", "a", "l">>,
       <<"u", "r", "g", "e", "n", "t">>,
       <<"l", "a", "t", "e", "r">> >>

\* list(d.keys()) of a store keyed by ids: ids are drawn in increasing order
\* and an entry is never stored a second time, so insertion order is id
\* order.
RECURSIVE Keys(_)
Keys(S) ==
    IF S = {} THEN <<>>
    ELSE LET least == CHOOSE x \in S : \A y \in S : x <= y
         IN  <<least>> \o Keys(S \ {least})

\* priority = i % 4 * 2 if i % 4 < 3 else 5
SeedPriority(i) == IF i % 4 < 3 THEN (i % 4) * 2 ELSE 5

\* seq[i % len(seq)] if seq else default   (i counts from 0)
Cycled(seq, i, default) ==
    IF seq = <<>> THEN default ELSE seq[(i % Len(seq)) + 1]

\* seed_data(tasks, projects, folders, tags) on a mock that stores no tag
\* yet, so that the keys of self.tags are the seed labels in their order.
\* seed_data records no call.  The names f"Folder {i+1}", f"Project {i+1}" and
\* f"Task {i+1}" are the pairs of their word and their number.
Mock_seed_data(n_tasks, n_projects, n_folders, n_tags) ==
    /\ mcall.pc = "idle"
    /\ tags = <<>>
    /\ LET f0          == id_counter
           p0          == f0 + n_folders
           t0          == p0 + n_projects
           folder_ids  == Keys(DOMAIN folders \cup (f0 + 1 .. p0))
           project_ids == Keys(DOMAIN projects \cup (p0 + 1 .. t0))
           labels      == SubSeq(SeedLabels, 1,
                                 IF n_tags < Len(SeedLabels) THEN n_tags
                                 ELSE Len(SeedLabels))
           seeded      == [i \in DOMAIN labels |->
                              TagFactory(labels[i], "#86BB6D", NoName)]
           tag_names   == [i \in DOMAIN labels |-> seeded[i].name]
       IN  /\ folders' = [id \in DOMAIN folders \cup (f0 + 1 .. p0) |->
                            IF id \in DOMAIN folders THEN folders[id]
                            ELSE FolderFactory(id, <<"Folder", id - f0>>)]
           /\ projects' = [id \in DOMAIN projects \cup (p0 + 1 .. t0) |->
                             IF id \in DOMAIN projects THEN projects[id]
                             ELSE ProjectFactory(id, <<"Project", id - p0>>,
                                      Cycled(folder_ids, id - p0 - 1, NoId))]
           /\ tags' = [n \in Range(tag_names) |->
                         seeded[CHOOSE i \in DOMAIN labels : tag_names[i] = n]]
           /\ tasks' = [id \in DOMAIN tasks \cup (t0 + 1 .. t0 + n_tasks) |->
                          IF id \in DOMAIN tasks THEN tasks[id]
                          ELSE LET i == id - t0 - 1
                               IN  [TaskFactory(id, <<"Task", i + 1>>,
                                       Cycled(project_ids, i, MockInboxId),
                                       IF tag_names = <<>> THEN <<>>
                                       ELSE <<Cycled(tag_names, i, NoName)>>,
                                       NoId)
                                    EXCEPT !.priority = SeedPriority(i)]]
           /\ id_counter' = t0 + n_tasks
    /\ UNCHANGED <<mcall, facadeVars>>

\* seed_data on a new mock, then reads of what it stored.
SeedNext ==
    \/ /\ id_counter = 0
       /\ \E n_tasks \in 0 .. MaxSeedTasks,
             n_projects, n_folders, n_tags \in 0 .. MaxSeedOthers :
             Mock_seed_data(n_tasks, n_projects, n_folders, n_tags)
    \/ \E t \in Ids : Mock_get_task(t)
    \/ Mock_list_projects
    \/ MockReturn

SeedSpec == MockInit /\ [][SeedNext]_vars

\* C32 (as claimed): every stored task has a priority out of 0, 1, 3, 5,
\* the tasks that seed_data stores included.
C32_PriorityInScale ==
    \A id \in DOMAIN tasks : tasks[id].priority \in {0, 1, 3, 5}

----------------------------------------------------------------------------
\* MockUnifiedAPI.sync_all

\* Mutant: the list misses the entry stored last.
ListOfButLast(d, keys) == [i \in 1 .. (Len(keys) - 1) |-> d[keys[i]]]

\* [x.model_dump() for x in d.values()], keys being list(d.keys()); an entity
\* is the record of its fields, which is what model_dump() gives.
ListOf(d, keys) == [i \in DOMAIN keys |-> d[keys[i]]]

\* The orders a dict with the key set S can have its keys in.
Orders(S) == {s \in [1 .. Cardinality(S) -> S] : Range(s) = S}

\* sync_all().  self.tags is keyed by names, whose insertion order the stores
\* of the model do not keep: its entries come in any one order.
Mock_sync_all ==
    /\ mcall.pc = "idle"
    /\ \E tag_names \in Orders(DOMAIN tags) :
          Returned("sync_all", <<>>,
              [inboxId         |-> MockInboxId,
               projectProfiles |-> ListOf(projects, Keys(DOMAIN projects)),
               syncTaskBean    |-> [update |-> ListOf(tasks, Keys(DOMAIN tasks))],
               tags            |-> ListOf(tags, tag_names),
               projectGroups   |-> ListOf(folders, Keys(DOMAIN folders))])
    /\ UNCHANGED <<tasks, projects, folders, tags, id_counter, facadeVars>>

\* The create operations in any order, with sync_all() between them.
SyncNext ==
    \/ /\ id_counter < MaxIds
       /\ Mock_create_project_group("F")
    \/ /\ id_counter < MaxIds
       /\ \E g \in {NoId} \cup DOMAIN folders : Mock_create_project("P", g)
    \/ /\ id_counter < MaxIds
       /\ \E p \in {NoId} \cup DOMAIN projects :
             Mock_create_task("x", p, <<>>, NoId)
    \/ \E label \in {<<"A">>, <<"b">>} : Mock_create_tag(label, None, NoName)
    \/ Mock_sync_all
    \/ MockReturn

SyncSpec == MockInit /\ [][SyncNext]_vars

\* The list has one entry per entity of the store and no other entry.
OnePerEntity(list, d) ==
    /\ Len(list) = Cardinality(DOMAIN d)
    /\ Range(list) = {d[k] : k \in DOMAIN d}

\* C33: what sync_all() returns after any sequence of create operations is
\* the current state: the project, task, tag and folder lists each hold one
\* entry per stored entity, and all four are empty when nothing is stored.
C33_SyncReturnsCurrentState ==
    Done("sync_all") =>
        /\ OnePerEntity(mcall.res.projectProfiles, projects)
        /\ OnePerEntity(mcall.res.syncTaskBean.update, tasks)
        /\ OnePerEntity(mcall.res.tags, tags)
        /\ OnePerEntity(mcall.res.projectGroups, folders)
        /\ id_counter = 0 /\ tags = <<>> =>
              /\ mcall.res.projectProfiles = <<>>
              /\ mcall.res.syncTaskBean.update = <<>>
              /\ mcall.res.tags = <<>>
              /\ mcall.res.projectGroups = <<>>

\* C33 witness: sync_all() has returned on an account that holds a folder,
\* a project, a task and two tags.
C33_Witness ==
    /\ Done("sync_all")
    /\ folders # <<>> /\ projects # <<>> /\ tasks # <<>>
    /\ Cardinality(DOMAIN tags) = 2
    /\ Len(mcall.res.tags) = 2

----------------------------------------------------------------------------

\* The operation in flight has passed _ensure_initialized().
PassedGuard == call.pc # "idle" /\ call.ready0

\* C34 (as claimed): an operation that passes the initialization guard finds
\* both clients usable, and so never takes the branch for a primary client
\* that is not configured: complete_task and get_project do not call V2,
\* update_task, delete_task, list_projects and delete_project do not call
\* V1 with their own request.
C34_GuardMeansBothConfigured ==
    PassedGuard =>
        /\ call.cap0.v1 /\ call.cap0.v2
        /\ call.op \in {"complete_task", "get_project"} =>
              \A j \in DOMAIN call.log : call.log[j].api # "B"
        /\ call.op \in {"update_task", "delete_task", "list_projects",
                        "delete_project"} =>
              \A j \in DOMAIN call.log :
                  call.log[j].api = "A" => call.log[j].m = "get_task"

\* The initialize() run of task i has constructed clients and is suspended at
\* one of its awaits.
Constructing(i) ==
    icall[i].pc \in {"auth", "verify"} /\ (icall[i].c1 \/ icall[i].c2)

\* C35 (as claimed): of two initialize() calls that overlap at most one
\* constructs the clients and authenticates V2, so that no handle stored in
\* the facade is replaced by a second one.
C35_OverlappingInitializeBuildsOnce ==
    ~(Constructing("main") /\ Constructing("aux"))

\* The stages at which create_task, update_task and create_project await
\* their V2 write.
WriteStages == {"ct_b", "ut_b", "cp_b"}

C37_InboxIsDefaultProject ==
    [][(/\ call.pc = "idle"
        /\ call'.op = "create_task"
        /\ call'.pid = None
        /\ call'.ready0)
       => /\ call'.proj = inbox_id
          /\ inbox_id = None =>
                /\ call'.pc = "done"
                /\ call'.out = ConfigurationError
                /\ call'.log = <<>>
          /\ (inbox_id # None /\ is_fully_configured(router)) =>
                /\ call'.pc = "await"
                /\ Len(call'.log) = 1]_vars

\* C37 witness: on a ready facade whose V2 login gave no inbox id,
\* create_task without project_id was refused before any upstream call.
C37_Witness ==
    /\ call.pc = "done"
    /\ call.op = "create_task"
    /\ call.pid = None
    /\ call.ready0
    /\ call.proj = None
    /\ call.out = ConfigurationError
    /\ call.log = <<>>

\* C38: an initialize() called on a ready facade returns at once: no client is
\* constructed, no authenticate() or verify_clients() call is awaited, and
\* the client handles, the router and the inbox id stay as they are.
C38_InitializeTwiceReturnsAtOnce ==
    [][\A i \in InitCallers :
          (icall[i].pc = "idle" /\ icall'[i].pc # "idle" /\ initialized)
          => /\ icall'[i].pc = "done"
             /\ icall'[i].out = "return"
             /\ ~icall'[i].c1 /\ ~icall'[i].c2
             /\ icall'[i].auth = "none"
             /\ UNCHANGED <<v1_client, v2_client, router, inbox_id, gen,
                            authed, initialized>>]_vars

\* C38 witness: an initialize() on a ready facade has returned early, the
\* facade still holding the clients of the run that made it ready.
C38_Witness ==
    \E i \in InitCallers :
        /\ icall[i].pc = "done"
        /\ icall[i].early
        /\ initialized
        /\ v1_client # 0 /\ v2_client # 0

----------------------------------------------------------------------------
\* Folders and the projects filed in them

\* create_project_group, create_project with no folder id or the id of a
\* folder that exists, delete_project_group with any id handed out.
GroupNext ==
    \/ /\ id_counter < MaxIds
       /\ Mock_create_project_group("F")
    \/ /\ id_counter < MaxIds
       /\ \E g \in {NoId} \cup DOMAIN folders : Mock_create_project("P", g)
    \/ \E g \in Ids : Mock_delete_project_group(g)
    \/ MockReturn

GroupSpec == MockInit /\ [][GroupNext]_vars

\* C39: whatever create_project_group, create_project (with no folder id or
\* the id of an existing folder) and delete_project_group calls were made,
\* every project's group_id is null or the id of a folder that exists.
C39_GroupIdNullOrExistingFolder ==
    \A p \in DOMAIN projects :
        projects[p].group_id = NoId \/ projects[p].group_id \in DOMAIN folders

\* C39 witness: a folder holding a project was deleted, and that project is
\* now in no folder while another project is still in its folder.
C39_Witness ==
    /\ Done("delete_project_group")
    /\ mcall.out = "return"
    /\ \E p \in DOMAIN projects :
          /\ mcall.pre.projects[p].group_id = mcall.args[1]
          /\ projects[p].group_id = NoId
    /\ \E q \in DOMAIN projects : projects[q].group_id \in DOMAIN folders

====
